---- MODULE Spec2Model ----
(***************************************************************************)
(* DragAction (coral-spectrum): the drag controller of                     *)
(* src/coral-component-shell/src/styles/header/index.styl, lines 157-1005. *)
(*                                                                         *)
(* The state is the part of the DOM the controller reads and writes        *)
(* (classes, overflow, the saved _overflow expandos, inline position, the  *)
(* scroll offsets, the dragAction back-reference, the Vent listener lists) *)
(* and the fields of every DragAction instance.  Each handler of the code  *)
(* is a function from a world record to a world record, so that a handler  *)
(* that calls another (the constructor calls destroy and the setters) is   *)
(* the composition the code performs; an action applies one handler to the *)
(* current state.                                                          *)
(***************************************************************************)
EXTENDS Integers, Sequences, FiniteSets, TLC

VARIABLES
    classes,      \* element -> set of class names (classList)
    overflow,     \* "body"/"box" -> computed overflow
    saved,        \* "body"/"box" -> the _overflow expando ("undefined" when unset)
    style,        \* target -> inline position, top, left
    sheet,        \* target -> position given by the style sheet (never written)
    scrollPos,    \* "doc"/"box" -> scrollLeft (x), scrollTop (y)
    backRef,      \* target -> controller stored in element.dragAction (0: undefined)
    win,          \* listeners of the window-level Vent (events), in registration order
    hvent,        \* handle element -> listeners of handle._dragEvents
    da,           \* controller id -> fields of the DragAction instance
    emitted,      \* notifications dispatched by the last operation
    lastOp,       \* the last operation: its name, controller, and whether a session was active before it
    seHist,       \* history: the last two drag-start/drag-end notifications
    elHist,       \* history: the last two drag-enter/drag-leave notifications
    phase,        \* history: how far the current session is through the outside-then-inside scenario
    overflow0,    \* history: the overflow values before the first pointer-down
    snap,         \* history: the DOM of the target just before the last construction
    session       \* history: controller -> whether a pointer-down began a session that no
                  \* pointer-up or destroy has ended, the settings it began with, and
                  \* the drop zone it entered and has not left, the overflow values before it,
                  \* and whether it was destroyed with nothing assigned to it since

vars == <<classes, overflow, saved, style, sheet, scrollPos, backRef, win, hvent, da,
          emitted, lastOp, seHist, elHist, phase, overflow0, snap, session>>

-----------------------------------------------------------------------------
\* Bounds of the model.

\* Controllers ever constructed.
MaxCtl == 3
\* Pointer-downs handled in one behaviour (each leaves one more window listener).
MaxStarts == 2

-----------------------------------------------------------------------------
\* Program constants.

OPEN_HAND_CLASS == "u-coral-openHand"
CLOSE_HAND_CLASS == "u-coral-closedHand"
IS_DRAGGING_CLASS == "is-dragging"
DEFAULT_SCROLL_OFFSET == 20
DEFAULT_SCROLL_BY == 10

axis == [FREE |-> "free", VERTICAL |-> "vertical", HORIZONTAL |-> "horizontal"]

-----------------------------------------------------------------------------
\* The document: two draggable elements and two handle elements inside a
\* box inside the body, two drop zones in the same content.

Ctl == 1 .. MaxCtl
Targets == {"t1", "t2"}
HandleEls == {"h1", "h2"}
ZoneEls == {"z1", "z2"}
Elements == Targets \cup HandleEls \cup {"body"}

XY(a, b) == [x |-> a, y |-> b]

\* Layout position of a target whose offsets are 0, in document coordinates.
Base(el) == IF el = "t1" THEN XY(20, 20) ELSE XY(40, 20)
TargetSize == XY(20, 20)
\* Drop zones: z1 and z2 overlap each other; neither touches a target at its base.
ZoneBase(z) == IF z = "z1" THEN XY(50, 50) ELSE XY(50, 60)
ZoneSize == XY(20, 20)
\* Bounding boxes of the two possible view containers, in document coordinates.
ContainerPos(k) == IF k = "body" THEN XY(0, 0) ELSE XY(10, 10)
ContainerSize(k) == IF k = "body" THEN XY(80, 80) ELSE XY(60, 60)
\* window.innerWidth/innerHeight, and the scroll extents (scrollWidth/scrollHeight).
WindowInner == XY(70, 70)
ScrollSize(k) == IF k = "doc" THEN XY(80, 80) ELSE XY(70, 70)
ClientSize(k) == IF k = "doc" THEN WindowInner ELSE ContainerSize("box")

\* A CSS length of the inline style: unset, auto, or a number of px.
Unset == [k |-> "unset", v |-> 0]
Auto == [k |-> "auto", v |-> 0]
PxLen(n) == [k |-> "px", v |-> n]


-----------------------------------------------------------------------------
\* The world a handler runs in, and the state it leaves.

World == [classes |-> classes, overflow |-> overflow, saved |-> saved, style |-> style,
          scrollPos |-> scrollPos, backRef |-> backRef, win |-> win, hvent |-> hvent,
          da |-> da, out |-> <<>>, err |-> "none"]

Range(s) == {s[i] : i \in 1 .. Len(s)}

\* window.getComputedStyle(el).position / .top / .left: the inline value when
\* there is one, else the style sheet's (whose top and left are auto).
ComputedPosition(w, el) ==
    IF w.style[el].position = "" THEN sheet[el] ELSE w.style[el].position
ComputedTop(w, el) == IF w.style[el].top.k = "unset" THEN Auto ELSE w.style[el].top
ComputedLeft(w, el) == IF w.style[el].left.k = "unset" THEN Auto ELSE w.style[el].left

\* parseFloat(value) || 0
ParseFloatOr0(len) == IF len.k = "px" THEN len.v ELSE 0

\* getViewContainer: the first ancestor that is the body or has overflow
\* hidden, auto or scroll.  Every target's ancestors are the box, then the body.
getViewContainer(w, el) ==
    IF w.overflow["box"] \in {"hidden", "auto", "scroll"} THEN "box" ELSE "body"

\* Layout: where the host puts a target, in document coordinates.  A static
\* element ignores top and left; content of the box moves against its scroll.
LayoutOffset(w, el) ==
    IF ComputedPosition(w, el) = "static" THEN XY(0, 0)
    ELSE XY(ParseFloatOr0(ComputedLeft(w, el)), ParseFloatOr0(ComputedTop(w, el)))
DocPos(w, el) ==
    XY(Base(el).x + LayoutOffset(w, el).x - w.scrollPos["box"].x,
       Base(el).y + LayoutOffset(w, el).y - w.scrollPos["box"].y)
ZonePos(w, z) ==
    XY(ZoneBase(z).x - w.scrollPos["box"].x, ZoneBase(z).y - w.scrollPos["box"].y)

\* element.getBoundingClientRect(): viewport coordinates.
ClientRect(w, pos, size) ==
    [left |-> pos.x - w.scrollPos["doc"].x, top |-> pos.y - w.scrollPos["doc"].y,
     width |-> size.x, height |-> size.y]

\* Assigning element.scrollTop / scrollLeft: the host keeps it in range.
ScrollMax(k) == XY(ScrollSize(k).x - ClientSize(k).x, ScrollSize(k).y - ClientSize(k).y)
ClampScroll(v, max) == IF v < 0 THEN 0 ELSE IF v > max THEN max ELSE v

-----------------------------------------------------------------------------
\* Vent: a listener is registered under an event name and a namespace.
\* ns = 0 is the namespace "DragAction", ns = id the namespace "DragAction<id>".

Listener(ev, ns, fn, c) == [ev |-> ev, ns |-> ns, fn |-> fn, by |-> c]

\* vent.off('.<namespace>'): every listener of that namespace goes.
VentOff(ls, ns) == SelectSeq(ls, LAMBDA l : l.ns # ns)

HasListener(ls, ev, fn, c) == \E i \in 1 .. Len(ls) : ls[i] = Listener(ev, 0, fn, c)
                                  \/ ls[i] = Listener(ev, c, fn, c)

\* transformToArray: the elements a string, an element or a NodeList stands for.
\* A value is [kind, els]; a selector carries the elements it resolves to.
IsElementValue(value) == value.kind \in {"string", "element", "nodelist"}
transformToArray(value) == value.els

Null == [kind |-> "null", els |-> <<>>]
Selector(els) == [kind |-> "string", els |-> els]
Element(e) == [kind |-> "element", els |-> <<e>>]

-----------------------------------------------------------------------------
\* set handle(value)

StartListeners(c) ==
    <<Listener("mousedown", 0, "_dragStart", c), Listener("touchstart", 0, "_dragStart", c)>>
OwnStartListeners(c) ==
    <<Listener("touchstart", 0, "_dragStart", c), Listener("mousedown", 0, "_dragStart", c)>>

\* (a slip: the earlier handles are left bound)
UnbindHandlesSkipped(w, c) == w.hvent

\* lines 446-450: handle._dragEvents.off('.DragAction') on each earlier handle
UnbindHandles(w, c) ==
    [h \in HandleEls |->
        IF h \in Range(w.da[c].handles) THEN VentOff(w.hvent[h], 0) ELSE w.hvent[h]]

SetHandle(w, c, value) ==
    LET d == w.da[c]
        el == d.el
        old == Range(d.handles)
        \* lines 441-453: unbind and remove classes
        own1 == VentOff(d.own, 0)
        hv1 == UnbindHandles(w, c)
        cl1 == [e \in Elements |->
                   IF e = "body" THEN w.classes[e] \ {CLOSE_HAND_CLASS}
                   ELSE IF e = el
                        THEN IF old = {} THEN w.classes[e] \ {IS_DRAGGING_CLASS, OPEN_HAND_CLASS}
                             ELSE w.classes[e] \ {IS_DRAGGING_CLASS}
                   ELSE IF e \in old THEN w.classes[e] \ {OPEN_HAND_CLASS}
                   ELSE w.classes[e]]
        \* lines 455-479: resolve and bind
        handles == IF IsElementValue(value) THEN transformToArray(value) ELSE <<>>
        new == Range(handles)
        own2 == IF new = {} THEN own1 \o OwnStartListeners(c) ELSE own1
        hv2 == [h \in HandleEls |-> IF h \in new THEN hv1[h] \o StartListeners(c) ELSE hv1[h]]
        cl2 == [e \in Elements |->
                   IF (new = {} /\ e = el) \/ e \in new THEN cl1[e] \cup {OPEN_HAND_CLASS}
                   ELSE cl1[e]]
    IN [w EXCEPT !.classes = cl2, !.hvent = hv2, !.da[c].handles = handles, !.da[c].own = own2]

\* set dropZone(value)
SetDropZone(w, c, value) ==
    [w EXCEPT !.da[c].dropZoneEntered = FALSE,
              !.da[c].dropZones = IF IsElementValue(value) THEN transformToArray(value) ELSE <<>>]

\* The values a caller may assign to axis, scroll and containment.
Str(s) == [kind |-> "string", s |-> s, b |-> FALSE]
Bool(b) == [kind |-> "boolean", s |-> "", b |-> b]
Nil == [kind |-> "null", s |-> "", b |-> FALSE]

\* transform.string(value) and transform.boolean(value) of the utilities.
TransformString(value) ==
    CASE value.kind = "string" -> value.s
      [] value.kind = "boolean" -> (IF value.b THEN "true" ELSE "false")
      [] OTHER -> ""
TransformBoolean(value) ==
    CASE value.kind = "boolean" -> value.b
      [] value.kind = "string" -> value.s # "false"
      [] OTHER -> FALSE

\* validate.enumeration(axis)(value)
IsAxis(value) == value \in {axis.FREE, axis.VERTICAL, axis.HORIZONTAL}

\* (a slip: the transformed value stored without the fallback)
SetAxisUnvalidated(w, c, value) == [w EXCEPT !.da[c].axis = TransformString(value)]

\* set axis(value)
SetAxis(w, c, value) ==
    [w EXCEPT !.da[c].axis = IF IsAxis(TransformString(value))
                             THEN TransformString(value) ELSE axis.FREE]

\* set scroll(value), set containment(value)
SetScroll(w, c, value) == [w EXCEPT !.da[c].scroll = TransformBoolean(value)]
SetContainment(w, c, value) == [w EXCEPT !.da[c].containment = TransformBoolean(value)]


-----------------------------------------------------------------------------
\* Geometry of a move.

\* within(scrollingElement, a, b): the boxes a and b intersect or touch.
within(w, aPos, aSize, bPos, bSize) ==
    LET aRect == ClientRect(w, aPos, aSize)
        bRect == ClientRect(w, bPos, bSize)
        al == aRect.left + w.scrollPos["doc"].x
        ar == al + aRect.width
        bl == bRect.left + w.scrollPos["doc"].x
        br == bl + bRect.width
        at == aRect.top + w.scrollPos["doc"].y
        ab == at + aRect.height
        bt == bRect.top + w.scrollPos["doc"].y
        bb == bt + bRect.height
    IN ~(bl > ar \/ br < al \/ (bt > ab \/ bb < at))

\* (a slip: the last intersecting drop zone instead of the first)
isOverDropZoneLast(w, c) ==
    LET zs == w.da[c].dropZones
        hit == {i \in 1 .. Len(zs) :
                   within(w, DocPos(w, w.da[c].el), TargetSize, ZonePos(w, zs[i]), ZoneSize)}
    IN IF hit = {} THEN "none" ELSE zs[CHOOSE i \in hit : \A j \in hit : i >= j]

\* isOverDropZone: the first configured drop zone the target is within, or "none".
isOverDropZone(w, c) ==
    LET zs == w.da[c].dropZones
        hit == {i \in 1 .. Len(zs) :
                   within(w, DocPos(w, w.da[c].el), TargetSize, ZonePos(w, zs[i]), ZoneSize)}
    IN IF hit = {} THEN "none" ELSE zs[CHOOSE i \in hit : \A j \in hit : i <= j]

\* One axis of "Need to scroll ?" when the container is the document:
\* the value assigned to scrollTop / scrollLeft.
ScrollDocument(rectStart, size, docStart, inner, scrollSize, cur) ==
    IF rectStart < DEFAULT_SCROLL_OFFSET THEN cur - DEFAULT_SCROLL_BY
    ELSE IF rectStart + size > inner - DEFAULT_SCROLL_OFFSET
            /\ docStart + size + DEFAULT_SCROLL_OFFSET < scrollSize
         THEN cur + DEFAULT_SCROLL_BY
         ELSE cur

\* (a slip: the container scrolled away from the edge the target is near)
ScrollContainerReversed(relStart, size, cSize, cur) ==
    IF relStart < DEFAULT_SCROLL_OFFSET THEN cur + DEFAULT_SCROLL_BY
    ELSE IF relStart + size > cSize - DEFAULT_SCROLL_OFFSET /\ relStart + size < cSize
         THEN cur - DEFAULT_SCROLL_BY
         ELSE cur

\* One axis of "Need to scroll ?" when the container is another element.
ScrollContainer(relStart, size, cSize, cur) ==
    IF relStart < DEFAULT_SCROLL_OFFSET THEN cur - DEFAULT_SCROLL_BY
    ELSE IF relStart + size > cSize - DEFAULT_SCROLL_OFFSET /\ relStart + size < cSize
         THEN cur + DEFAULT_SCROLL_BY
         ELSE cur

\* One axis of newPosition: <<v>>, or <<>> when the code leaves it undefined.
NewPosition(allowed, containment, page, dragPosition, cPos, cSize, size) ==
    IF ~allowed THEN <<>>
    ELSE LET v == page - dragPosition
         IN IF containment
            THEN IF v >= cPos /\ v + size <= cPos + cSize THEN <<v>>
                 ELSE IF page <= cPos THEN <<cPos>>
                 ELSE IF page >= cPos + cSize THEN <<cPos + cSize - size>>
                 ELSE <<>>
            ELSE <<v>>

\* (a slip: an undefined newPosition written as 0px)
StyleWriteUndefinedAsZero(old, np, docStart, css) ==
    IF np = <<>> THEN PxLen(0) ELSE PxLen(np[1] - docStart + css)

\* style.top = `${newPosition.top - dragElementPosition.top + css.top}px`:
\* an undefined newPosition makes "NaNpx", which the style rejects.
StyleWrite(old, np, docStart, css) ==
    IF np = <<>> THEN old ELSE PxLen(np[1] - docStart + css)

\* element.style.overflow = value: "undefined" is no overflow value and is rejected.
OverflowWrite(old, value) == IF value = "undefined" THEN old ELSE value

Notification(type, c, el, drop) == [type |-> type, by |-> c, el |-> el, dropElement |-> drop]

-----------------------------------------------------------------------------
\* _dragStart(event): event.page is the pointer in document coordinates.

DragStart(w, c, page) ==
    LET d == w.da[c]
        el == d.el
        container == getViewContainer(w, el)
        hs == Range(d.handles)
        pos == DocPos(w, el)
        rect == ClientRect(w, pos, TargetSize)
    IN [w EXCEPT
          !.da[c].container = container,
          !.win = Append(@, Listener("touchmove", 0, "preventDefault", c)),
          !.saved = [k \in {"body", "box"} |->
                        IF k = "body" THEN w.overflow["body"]
                        ELSE IF container # "body" THEN w.overflow["box"] ELSE @[k]],
          !.overflow = [k \in {"body", "box"} |->
                           IF k = "body" THEN "hidden"
                           ELSE IF container # "body"
                                THEN (IF d.scroll THEN "scroll" ELSE "hidden")
                                ELSE @[k]],
          !.da[c].dragPosition = XY(page.x - (rect.left + w.scrollPos["doc"].x),
                                    page.y - (rect.top + w.scrollPos["doc"].y)),
          !.classes = [e \in Elements |->
                          IF e = "body" THEN @[e] \cup {CLOSE_HAND_CLASS}
                          ELSE IF e = el
                               THEN (IF hs = {} THEN @[e] \ {OPEN_HAND_CLASS} ELSE @[e])
                                       \cup {IS_DRAGGING_CLASS}
                          ELSE IF e \in hs THEN @[e] \ {OPEN_HAND_CLASS}
                          ELSE @[e]],
          !.style[el].position = IF ComputedPosition(w, el) = "static" THEN "relative" ELSE @,
          !.out = Append(@, Notification("dragstart", c, el, "none"))]

-----------------------------------------------------------------------------
\* _drag(event)

DropZoneEvents(w, c) ==
    LET d == w.da[c]
        dropZone == isOverDropZone(w, c)
    IN IF dropZone # "none"
       THEN [w EXCEPT
               !.da[c].dropElement = dropZone,
               !.da[c].dropZoneEntered = TRUE,
               !.out = @ \o (IF ~d.dropZoneEntered
                             THEN <<Notification("dragenter", c, d.el, dropZone)>> ELSE <<>>)
                         \o <<Notification("dragover", c, d.el, dropZone)>>]
       ELSE IF d.dropZoneEntered
       THEN [w EXCEPT
               !.out = Append(@, Notification("dragleave", c, d.el, d.dropElement)),
               !.da[c].dropZoneEntered = FALSE]
       ELSE w

Drag(w, c, page) ==
    LET d == w.da[c]
        el == d.el
    IN IF IS_DRAGGING_CLASS \notin w.classes[el] THEN w
       \* this._container is undefined until the first _dragStart: line 631 throws
       ELSE IF d.container = "none" THEN [w EXCEPT !.err = "TypeError"]
       ELSE
       LET doc == w.scrollPos["doc"]
           pos == DocPos(w, el)
           rect == ClientRect(w, pos, TargetSize)
           dragElementPosition == XY(rect.left + doc.x, rect.top + doc.y)
           css == XY(ParseFloatOr0(ComputedLeft(w, el)), ParseFloatOr0(ComputedTop(w, el)))
           cRect == ClientRect(w, ContainerPos(d.container), ContainerSize(d.container))
           containerPosition == XY(cRect.left + doc.x, cRect.top + doc.y)
           \* lines 657-703
           box == w.scrollPos["box"]
           scrolled ==
               IF ~d.scroll THEN w.scrollPos
               ELSE IF d.container = "body"
               THEN [w.scrollPos EXCEPT !["doc"] =
                       XY(ClampScroll(ScrollDocument(rect.left, rect.width, dragElementPosition.x,
                                                     WindowInner.x, ScrollSize("doc").x, doc.x),
                                      ScrollMax("doc").x),
                          ClampScroll(ScrollDocument(rect.top, rect.height, dragElementPosition.y,
                                                     WindowInner.y, ScrollSize("doc").y, doc.y),
                                      ScrollMax("doc").y))]
               ELSE [w.scrollPos EXCEPT !["box"] =
                       XY(ClampScroll(ScrollContainer(rect.left - cRect.left, rect.width,
                                                      cRect.width, box.x), ScrollMax("box").x),
                          ClampScroll(ScrollContainer(rect.top - cRect.top, rect.height,
                                                      cRect.height, box.y), ScrollMax("box").y))]
           \* lines 705-747
           newTop == NewPosition(d.axis # "horizontal", d.containment, page.y, d.dragPosition.y,
                                 containerPosition.y, cRect.height, rect.height)
           newLeft == NewPosition(d.axis # "vertical", d.containment, page.x, d.dragPosition.x,
                                  containerPosition.x, cRect.width, rect.width)
           moved == [w EXCEPT
                       !.out = Append(@, Notification("drag", c, el, "none")),
                       !.scrollPos = scrolled,
                       !.style[el].top = StyleWrite(@, newTop, dragElementPosition.y, css.y),
                       !.style[el].left = StyleWrite(@, newLeft, dragElementPosition.x, css.x)]
       IN DropZoneEvents(moved, c)

-----------------------------------------------------------------------------
\* _dragEnd(event)

\* (a slip: the dragging class stays on the target)
EndClassesKeepDragging(w, c) ==
    LET el == w.da[c].el
        hs == Range(w.da[c].handles)
    IN [e \in Elements |->
           IF e = "body" THEN w.classes[e] \ {CLOSE_HAND_CLASS}
           ELSE IF e = el /\ hs = {} THEN w.classes[e] \cup {OPEN_HAND_CLASS}
           ELSE IF e \in hs THEN w.classes[e] \cup {OPEN_HAND_CLASS}
           ELSE w.classes[e]]

\* lines 805-814: the classes when the session ends
EndClasses(w, c) ==
    LET el == w.da[c].el
        hs == Range(w.da[c].handles)
    IN [e \in Elements |->
           IF e = "body" THEN w.classes[e] \ {CLOSE_HAND_CLASS}
           ELSE IF e = el
                THEN IF hs = {} THEN (w.classes[e] \ {IS_DRAGGING_CLASS}) \cup {OPEN_HAND_CLASS}
                     ELSE w.classes[e] \ {IS_DRAGGING_CLASS}
           ELSE IF e \in hs THEN w.classes[e] \cup {OPEN_HAND_CLASS}
           ELSE w.classes[e]]

DragEnd(w, c) ==
    LET d == w.da[c]
        el == d.el
        hs == Range(d.handles)
        bodyRestored == [w EXCEPT !.overflow["body"] = OverflowWrite(@, w.saved["body"]),
                                  !.saved["body"] = "undefined"]
    IN IF IS_DRAGGING_CLASS \notin w.classes[el] THEN w
       \* this._container is undefined until the first _dragStart: line 800 throws
       ELSE IF d.container = "none" THEN [bodyRestored EXCEPT !.err = "TypeError"]
       ELSE
       LET restored ==
               IF d.container # "body"
               THEN [bodyRestored EXCEPT !.overflow["box"] = OverflowWrite(@, w.saved["box"]),
                                         !.saved["box"] = "undefined"]
               ELSE bodyRestored
           dropZone == isOverDropZone(w, c)
           drops == d.dropZoneEntered /\ dropZone # "none"
       IN [restored EXCEPT
             !.classes = EndClasses(w, c),
             !.da[c].dropElement = IF drops THEN dropZone ELSE @,
             !.out = @ \o (IF drops THEN <<Notification("drop", c, el, dropZone)>> ELSE <<>>)
                       \o <<Notification("dragend", c, el, "none")>>]

-----------------------------------------------------------------------------
\* destroy(restorePosition)

\* (a slip: the window listeners left registered)
WindowOffNothing(w, c) == w.win

\* (a slip: the namespace without the id)
WindowOffNoId(w, c) == VentOff(w.win, 0)

\* line 862: events.off(`.DragAction${this._id}`)
WindowOff(w, c) == VentOff(w.win, c)

Destroy(w, c, restorePosition) ==
    LET d == w.da[c]
        el == d.el
        hs == Range(d.handles)
        restoreBody == w.saved["body"] # "undefined"
        restoreBox == d.container = "box" /\ w.saved["box"] # "undefined"
    IN [w EXCEPT
          !.classes = [e \in Elements |->
                          IF e = "body" THEN @[e] \ {CLOSE_HAND_CLASS}
                          ELSE IF e = el
                               THEN IF hs = {} THEN @[e] \ {IS_DRAGGING_CLASS, OPEN_HAND_CLASS}
                                    ELSE @[e] \ {IS_DRAGGING_CLASS}
                          ELSE IF e \in hs THEN @[e] \ {OPEN_HAND_CLASS}
                          ELSE @[e]],
          !.hvent = [h \in HandleEls |-> IF h \in hs THEN VentOff(@[h], 0) ELSE @[h]],
          !.da[c].own = IF hs = {} THEN VentOff(@, 0) ELSE @,
          !.win = WindowOff(w, c),
          !.overflow = [k \in {"body", "box"} |->
                           IF k = "body" THEN (IF restoreBody THEN w.saved["body"] ELSE @[k])
                           ELSE IF restoreBox THEN w.saved["box"] ELSE @[k]],
          !.saved = [k \in {"body", "box"} |->
                        IF k = "body" THEN (IF restoreBody THEN "undefined" ELSE @[k])
                        ELSE IF restoreBox THEN "undefined" ELSE @[k]],
          !.style[el] = IF restorePosition
                        THEN [position |-> d.initialPosition.position,
                              top |-> d.initialPosition.top,
                              left |-> d.initialPosition.left]
                        ELSE @,
          !.backRef[el] = 0]

-----------------------------------------------------------------------------
\* new DragAction(dragElement): attrs are the coral-dragaction-* attributes
\* of the element.

Attrs(h, z, a, s, k) == [handle |-> h, dropZone |-> z, axis |-> a, scroll |-> s, containment |-> k]

NoController ==
    [made |-> FALSE, el |-> "t1", handles |-> <<>>, own |-> <<>>, dropZones |-> <<>>, dropZoneEntered |-> FALSE, dropElement |-> "none",
     axis |-> "free", scroll |-> FALSE, containment |-> FALSE, container |-> "none",
     dragPosition |-> XY(0, 0),
     initialPosition |-> [position |-> "static", top |-> Auto, left |-> Auto]]

Construct(w, c, el, attrs) ==
    LET \* lines 369-372
        w1 == IF w.backRef[el] # 0 THEN Destroy(w, w.backRef[el], FALSE) ELSE w
        \* lines 365-384
        w2 == [w1 EXCEPT !.da[c] = [NoController EXCEPT
                    !.made = TRUE, !.el = el,
                    !.initialPosition = [position |-> ComputedPosition(w1, el),
                                         left |-> ComputedLeft(w1, el),
                                         top |-> ComputedTop(w1, el)]]]
        \* lines 386-399
        w3 == SetHandle(w2, c, attrs.handle)
        w4 == SetDropZone(w3, c, attrs.dropZone)
        w5 == SetAxis(w4, c, Str(attrs.axis))
        w6 == SetScroll(w5, c, Bool(attrs.scroll))
        w7 == SetContainment(w6, c, Bool(attrs.containment))
    IN [w7 EXCEPT
          !.win = @ \o <<Listener("touchmove", c, "_drag", c), Listener("mousemove", c, "_drag", c),
                         Listener("touchend", c, "_dragEnd", c), Listener("mouseup", c, "_dragEnd", c)>>,
          !.backRef[el] = c]


\* The arguments new DragAction() may be given besides an element or a
\* selector: nothing, null, and a value that is neither a string nor an element.
Undefined == [kind |-> "undefined", els |-> <<>>]
Other == [kind |-> "object", els |-> <<>>]

ConstructorListeners(c) ==
    <<Listener("touchmove", c, "_drag", c), Listener("mousemove", c, "_drag", c),
      Listener("touchend", c, "_dragEnd", c), Listener("mouseup", c, "_dragEnd", c)>>

\* (a slip: the listeners registered before the argument is looked at)
ConstructFromListenersFirst(w, c, dragElement, attrs) ==
    IF dragElement.els = <<>>
    THEN [w EXCEPT !.win = @ \o ConstructorListeners(c), !.err = "Error"]
    ELSE Construct(w, c, dragElement.els[1], attrs)

\* lines 350-372: the argument resolved to the element, or the error thrown.
ConstructFrom(w, c, dragElement, attrs) ==
    CASE dragElement.kind \in {"undefined", "null"} ->
             [w EXCEPT !.err = "Coral.DragAction: dragElement is missing"]
      [] dragElement.kind = "element" -> Construct(w, c, dragElement.els[1], attrs)
      [] dragElement.kind = "string" ->
             IF dragElement.els = <<>>
             THEN [w EXCEPT !.err = "Coral.DragAction: dragElement is null"]
             ELSE Construct(w, c, dragElement.els[1], attrs)
         \* el stays null and line 370 reads a property of it
      [] OTHER -> [w EXCEPT !.err = "TypeError"]

-----------------------------------------------------------------------------
\* History kept for the properties.

Types(ns) == [i \in 1 .. Len(ns) |-> ns[i].type]
LastTwo(s) == IF Len(s) <= 2 THEN s ELSE SubSeq(s, Len(s) - 1, Len(s))
Dragging(w, c) == w.da[c].made /\ IS_DRAGGING_CLASS \in w.classes[w.da[c].el]

\* The target of controller c geometrically overlaps its single drop zone.
OverZone(w, c) ==
    /\ Len(w.da[c].dropZones) = 1
    /\ within(w, DocPos(w, w.da[c].el), TargetSize, ZonePos(w, w.da[c].dropZones[1]), ZoneSize)

\* The scenario "pointer-down outside the single zone, moves, then moves inside
\* it": idle (no session), out (not yet inside), in (inside since it entered),
\* off (anything else).
NextPhase(op, was, w, c) ==
    CASE op = "pointerdown" ->
             IF ~was /\ Len(w.da[c].dropZones) = 1 /\ ~OverZone(w, c) THEN "out" ELSE "off"
      [] op = "move" ->
             IF ~was THEN phase
             ELSE IF phase = "out" THEN (IF OverZone(w, c) THEN "in" ELSE "out")
             ELSE IF phase = "in" /\ OverZone(w, c) THEN "in"
             ELSE "off"
      [] op = "pointerup" -> IF was THEN "idle" ELSE phase
      [] OTHER -> IF phase = "idle" THEN "idle" ELSE "off"

\* The state a handler leaves, with the history of what it dispatched.
\* The target as it is now, before controller c is constructed on it.
TakeSnap(c, el) ==
    [c |-> c, age |-> 0, style |-> style[el],
     computed |-> [position |-> ComputedPosition(World, el), top |-> ComputedTop(World, el),
                   left |-> ComputedLeft(World, el)],
     classes |-> classes]
\* One more operation since the last construction (1, or 2 for more).
Aged == IF snap.c = 0 \/ snap.age = 2 THEN snap ELSE [snap EXCEPT !.age = @ + 1]

\* The settings a move reads (lines 657, 706-747).
Config(d, active) ==
    [active |-> active, entered |-> "none", overflow |-> overflow,
     axis |-> d.axis, scroll |-> d.scroll, containment |-> d.containment, gone |-> FALSE]

\* The drop zone of the drag-enter that no drag-leave has followed, after the
\* notifications ns of controller c.
EnteredAfter(ns, c, was) ==
    IF \E i \in 1 .. Len(ns) : ns[i].by = c /\ ns[i].type = "dragenter"
    THEN (CHOOSE n \in Range(ns) : n.by = c /\ n.type = "dragenter").dropElement
    ELSE IF \E i \in 1 .. Len(ns) : ns[i].by = c /\ ns[i].type = "dragleave" THEN "none"
    ELSE was

\* The assignments a controller takes.
Setters == {"handle", "dropZone", "axis", "scroll", "containment"}

\* A pointer-down begins a session of c; a pointer-up or a destroy (also the
\* one a constructor on the same element performs) ends it.  A controller is
\* gone from its destroy until something is assigned to it.
NextSessions(w, op, c) ==
    [b \in Ctl |->
        IF b = c
        THEN CASE op = "pointerdown" ->
                      [Config(w.da[c], TRUE) EXCEPT
                          !.entered = IF session[b].active THEN session[b].entered ELSE "none",
                          !.overflow = IF session[b].active THEN session[b].overflow ELSE overflow,
                          !.gone = session[b].gone]
               [] op = "new" -> [Config(w.da[c], FALSE) EXCEPT !.overflow = w.overflow]
               [] op \in {"pointerup", "destroy"} ->
                      [session[b] EXCEPT !.active = FALSE, !.gone = @ \/ op = "destroy"]
               [] OTHER -> [session[b] EXCEPT !.entered = EnteredAfter(w.out, c, @),
                                              !.gone = @ /\ op \notin Setters]
        ELSE IF op = "new" /\ backRef[w.da[c].el] = b
             THEN [session[b] EXCEPT !.active = FALSE, !.gone = TRUE]
             ELSE session[b]]

Commit(w, op, c, page, flag) ==
    /\ classes' = w.classes
    /\ overflow' = w.overflow
    /\ saved' = w.saved
    /\ style' = w.style
    /\ scrollPos' = w.scrollPos
    /\ backRef' = w.backRef
    /\ win' = w.win
    /\ hvent' = w.hvent
    /\ da' = w.da
    /\ emitted' = w.out
    /\ lastOp' = [op |-> op, c |-> c, was |-> Dragging(World, c), from |-> phase,
                  page |-> page, restore |-> flag, error |-> w.err]
    /\ session' = NextSessions(w, op, c)
    /\ snap' = IF op = "new" THEN TakeSnap(c, w.da[c].el) ELSE Aged
    /\ seHist' = LastTwo(seHist \o SelectSeq(Types(w.out), LAMBDA t : t \in {"dragstart", "dragend"}))
    /\ elHist' = LastTwo(elHist \o SelectSeq(Types(w.out), LAMBDA t : t \in {"dragenter", "dragleave"}))
    /\ phase' = NextPhase(op, Dragging(World, c), w, c)
    /\ UNCHANGED <<sheet, overflow0>>

-----------------------------------------------------------------------------
\* The operations a controller is given.

\* Offsets of the pointer from the target's corner at pointer-down, and the
\* pointer positions of moves, in document coordinates.
GrabOffsets == {XY(0, 0), XY(10, 10)}
Pointers == {XY(a, b) : a \in {0, 40, 80}, b \in {0, 40, 80}}

HandleValues == {Null, Selector(<<>>), Selector(<<"h1">>), Selector(<<"h1", "h2">>), Element("h2")}
DropZoneValues == {Null, Selector(<<"z1">>), Selector(<<"z1", "z2">>), Selector(<<"z2", "z1">>)}

\* SpecDrag: the target lands outside z1 at (40, 20) and inside it at the others.
DragPointers == {XY(40, 20), XY(40, 40), XY(60, 60)}

Starts == Len(SelectSeq(win, LAMBDA l : l.fn = "preventDefault"))

\* A mousedown or touchstart reaches a _dragStart listener of controller c.
StartBound(c) ==
    \/ HasListener(da[c].own, "mousedown", "_dragStart", c)
    \/ \E h \in HandleEls : HasListener(hvent[h], "mousedown", "_dragStart", c)

PointerDown(c, g) ==
    /\ da[c].made
    /\ StartBound(c)
    /\ Starts < MaxStarts
    /\ LET pos == DocPos(World, da[c].el)
       IN Commit(DragStart(World, c, XY(pos.x + g.x, pos.y + g.y)), "pointerdown", c,
                 XY(pos.x + g.x, pos.y + g.y), FALSE)

\* A mousemove or touchmove reaches the _drag listener of controller c.
PointerMove(c, p) ==
    /\ da[c].made
    /\ HasListener(win, "mousemove", "_drag", c)
    /\ Commit(Drag(World, c, p), "move", c, p, FALSE)

\* A mouseup or touchend reaches the _dragEnd listener of controller c.
PointerUp(c) ==
    /\ da[c].made
    /\ HasListener(win, "mouseup", "_dragEnd", c)
    /\ Commit(DragEnd(World, c), "pointerup", c, XY(0, 0), FALSE)

HandleSetter(c, value) ==
    /\ da[c].made
    /\ Commit(SetHandle(World, c, value), "handle", c, XY(0, 0), FALSE)

DropZoneSetter(c, value) ==
    /\ da[c].made
    /\ Commit(SetDropZone(World, c, value), "dropZone", c, XY(0, 0), FALSE)

\* controller.axis = value, .scroll = value, .containment = value
AxisSetter(c, value) ==
    /\ da[c].made
    /\ Commit(SetAxis(World, c, value), "axis", c, XY(0, 0), FALSE)

ScrollSetter(c, value) ==
    /\ da[c].made
    /\ Commit(SetScroll(World, c, value), "scroll", c, XY(0, 0), FALSE)

ContainmentSetter(c, value) ==
    /\ da[c].made
    /\ Commit(SetContainment(World, c, value), "containment", c, XY(0, 0), FALSE)

\* new DragAction(el) by the application: ids are given in order.
New(c, el, attrs) ==
    /\ ~da[c].made
    /\ \A b \in Ctl : b < c => da[b].made
    /\ Commit(ConstructFrom(World, c, Element(el), attrs), "new", c, XY(0, 0), FALSE)

\* new DragAction(dragElement) with an argument that stands for no element.
InvalidArguments == {Undefined, Null, Selector(<<>>), Other}
NewInvalid(c, dragElement) ==
    /\ ~da[c].made
    /\ \A b \in Ctl : b < c => da[b].made
    /\ Commit(ConstructFrom(World, c, dragElement, Attrs(Null, Null, "free", FALSE, FALSE)),
              "newinvalid", c, XY(0, 0), FALSE)

\* controller.destroy(restorePosition), on any controller ever constructed.
DestroyCall(c, restorePosition) ==
    /\ da[c].made
    /\ Commit(Destroy(World, c, restorePosition), "destroy", c, XY(0, 0), restorePosition)

\* The host application puts a target that is not being dragged back where
\* the layout has it (it clears the inline top and left).
HostReposition(el) ==
    /\ IS_DRAGGING_CLASS \notin classes[el]
    /\ style[el].top # Unset \/ style[el].left # Unset
    /\ style' = [style EXCEPT ![el].top = Unset, ![el].left = Unset]
    /\ emitted' = <<>>
    /\ lastOp' = [op |-> "host", c |-> 0, was |-> FALSE, from |-> phase, page |-> XY(0, 0),
                  restore |-> FALSE, error |-> "none"]
    /\ snap' = Aged
    /\ UNCHANGED <<classes, overflow, saved, sheet, scrollPos, backRef, win, hvent, da,
                   seHist, elHist, phase, overflow0, session>>

-----------------------------------------------------------------------------
\* The document before any controller exists.

NoSnap == [c |-> 0, age |-> 0, style |-> [position |-> "", top |-> Unset, left |-> Unset],
           computed |-> [position |-> "static", top |-> Auto, left |-> Auto],
           classes |-> [e \in Elements |-> {}]]

Pristine(boxOverflow) ==
    [classes |-> [e \in Elements |-> {}],
     overflow |-> [k \in {"body", "box"} |-> IF k = "body" THEN "visible" ELSE boxOverflow],
     saved |-> [k \in {"body", "box"} |-> "undefined"],
     style |-> [t \in Targets |-> [position |-> "", top |-> Unset, left |-> Unset]],
     scrollPos |-> [k \in {"doc", "box"} |-> XY(0, 0)],
     backRef |-> [t \in Targets |-> 0],
     win |-> <<>>,
     hvent |-> [h \in HandleEls |-> <<>>],
     da |-> [c \in Ctl |-> NoController],
     out |-> <<>>, err |-> "none"]

StartFrom(w) ==
    /\ classes = w.classes
    /\ overflow = w.overflow
    /\ saved = w.saved
    /\ style = w.style
    /\ scrollPos = w.scrollPos
    /\ backRef = w.backRef
    /\ win = w.win
    /\ hvent = w.hvent
    /\ da = w.da
    /\ emitted = <<>>
    /\ lastOp = [op |-> "none", c |-> 0, was |-> FALSE, from |-> "idle", page |-> XY(0, 0),
                 restore |-> FALSE, error |-> "none"]
    /\ session = [c \in Ctl |-> [Config(w.da[c], FALSE) EXCEPT !.overflow = w.overflow]]
    /\ seHist = <<>>
    /\ elHist = <<>>
    /\ phase = "idle"
    /\ overflow0 = w.overflow
    /\ snap = NoSnap

-----------------------------------------------------------------------------
\* SpecDrag: one controller on t1 with one drop zone, free axis, no scroll and
\* no containment; pointer events, the handle and dropZone setters, the host.

InitDrag ==
    /\ sheet = [t \in Targets |-> "static"]
    /\ \E boxOverflow \in {"visible", "auto"}, h \in {Null, Selector(<<"h1">>)} :
          StartFrom(Construct(Pristine(boxOverflow), 1, "t1",
                              Attrs(h, Selector(<<"z1">>), "free", FALSE, FALSE)))

NextDrag ==
    \/ PointerDown(1, XY(0, 0))
    \/ \E p \in DragPointers : PointerMove(1, p)
    \/ PointerUp(1)
    \/ \E v \in {Null, Selector(<<"h1">>)} : HandleSetter(1, v)
    \/ \E v \in {Null, Selector(<<"z1">>)} : DropZoneSetter(1, v)
    \/ HostReposition("t1")

SpecDrag == InitDrag /\ [][NextDrag]_vars


-----------------------------------------------------------------------------
\* SpecSession: the same controller given pointer events only.

NextSession ==
    \/ PointerDown(1, XY(0, 0))
    \/ \E p \in DragPointers : PointerMove(1, p)
    \/ PointerUp(1)
    \/ HostReposition("t1")

SpecSession == InitDrag /\ [][NextSession]_vars

-----------------------------------------------------------------------------
\* SpecGeom: one controller on t1 with any axis, scroll and containment and no
\* drop zone, given pointer events anywhere in the document.

InitGeom ==
    /\ sheet = [t \in Targets |-> "static"]
    /\ \E boxOverflow \in {"visible", "auto"}, a \in {"free", "horizontal", "vertical"},
          s \in BOOLEAN, k \in BOOLEAN :
          StartFrom(Construct(Pristine(boxOverflow), 1, "t1", Attrs(Null, Null, a, s, k)))

NextGeom ==
    \/ \E g \in GrabOffsets : PointerDown(1, g)
    \/ \E p \in Pointers : PointerMove(1, p)
    \/ PointerUp(1)

SpecGeom == InitGeom /\ [][NextGeom]_vars


-----------------------------------------------------------------------------
\* SpecLife: controllers constructed on t1 and destroyed, in any order and
\* any number of times, with sessions started and ended in between.  The
\* controllers have no handle (they listen on the target itself).

InitLife ==
    /\ sheet = [t \in Targets |-> "static"]
    /\ StartFrom(Pristine("visible"))

NextLife ==
    \/ \E c \in Ctl : New(c, "t1", Attrs(Null, Null, "free", FALSE, FALSE))
    \/ \E c \in Ctl, r \in BOOLEAN : DestroyCall(c, r)
    \/ \E c \in Ctl : PointerDown(c, XY(0, 0))
    \/ \E c \in Ctl : PointerUp(c)

SpecLife == InitLife /\ [][NextLife]_vars

\* SpecLifeHandle: the same, the controllers constructed with the handle h1.

NextLifeHandle ==
    \/ \E c \in Ctl : New(c, "t1", Attrs(Selector(<<"h1">>), Null, "free", FALSE, FALSE))
    \/ \E c \in Ctl, r \in BOOLEAN : DestroyCall(c, r)
    \/ \E c \in Ctl : PointerDown(c, XY(0, 0))
    \/ \E c \in Ctl : PointerUp(c)

SpecLifeHandle == InitLife /\ [][NextLifeHandle]_vars

-----------------------------------------------------------------------------
\* SpecConfig: one controller on t1 (the body its container), given pointer events
\* and assignments of any value to axis, scroll and containment.

AxisValues == {Str("free"), Str("horizontal"), Str("vertical"), Str("diagonal"), Nil, Bool(TRUE)}
BooleanValues == {Bool(TRUE), Bool(FALSE), Nil, Str("on")}
ConfigPointers == {XY(40, 20), XY(60, 60)}

InitConfig ==
    /\ sheet = [t \in Targets |-> "static"]
    /\ StartFrom(Construct(Pristine("visible"), 1, "t1", Attrs(Null, Null, "free", FALSE, FALSE)))

NextConfig ==
    \/ PointerDown(1, XY(0, 0))
    \/ \E p \in ConfigPointers : PointerMove(1, p)
    \/ PointerUp(1)
    \/ \E v \in AxisValues : AxisSetter(1, v)
    \/ \E v \in BooleanValues : ScrollSetter(1, v)
    \/ \E v \in BooleanValues : ContainmentSetter(1, v)

SpecConfig == InitConfig /\ [][NextConfig]_vars

-----------------------------------------------------------------------------
\* SpecConstruct: constructions on t1 and t2 with valid and invalid arguments,
\* and destroy calls.

NextConstruct ==
    \/ \E c \in Ctl, el \in Targets, h \in {Null, Selector(<<"h1">>)} :
          New(c, el, Attrs(h, Null, "free", FALSE, FALSE))
    \/ \E c \in Ctl, v \in InvalidArguments : NewInvalid(c, v)
    \/ \E c \in Ctl, r \in BOOLEAN : DestroyCall(c, r)

SpecConstruct == InitLife /\ [][NextConstruct]_vars

-----------------------------------------------------------------------------
\* SpecShared: controller 1 on t1 and controller 2 on t2, both inside the box
\* and the body; pointer-down, pointer-up and destroy of each in any order.

InitShared ==
    /\ sheet = [t \in Targets |-> "static"]
    /\ \E boxOverflow \in {"visible", "auto"} :
          StartFrom(Construct(Construct(Pristine(boxOverflow), 1, "t1",
                                        Attrs(Null, Null, "free", FALSE, FALSE)),
                              2, "t2", Attrs(Null, Null, "free", FALSE, FALSE)))

NextShared ==
    \/ \E c \in {1, 2} : PointerDown(c, XY(0, 0))
    \/ \E c \in {1, 2} : PointerUp(c)
    \/ \E c \in {1, 2}, r \in BOOLEAN : DestroyCall(c, r)

SpecShared == InitShared /\ [][NextShared]_vars

-----------------------------------------------------------------------------
\* SpecHandle: one controller on t1, constructed with the handle h1, given
\* any handle value and pointer-down and pointer-up.

InitHandle ==
    /\ sheet = [t \in Targets |-> "static"]
    /\ StartFrom(Construct(Pristine("visible"), 1, "t1",
                           Attrs(Selector(<<"h1">>), Null, "free", FALSE, FALSE)))

NextHandle ==
    \/ \E v \in HandleValues : HandleSetter(1, v)
    \/ PointerDown(1, XY(0, 0))
    \/ PointerUp(1)

SpecHandle == InitHandle /\ [][NextHandle]_vars

-----------------------------------------------------------------------------
\* SpecZones: one controller on t1 (the body its container), with any of the
\* drop zone lists, given pointer events and dropZone assignments.  The target
\* lands on no zone at (40, 20), on z1 alone at (40, 30), on z1 and z2 at
\* (40, 40) and on z2 alone at (40, 80).

ZonePointers == {XY(40, 20), XY(40, 30), XY(40, 40), XY(40, 80)}

InitZones ==
    /\ sheet = [t \in Targets |-> "static"]
    /\ \E z \in DropZoneValues :
          StartFrom(Construct(Pristine("visible"), 1, "t1", Attrs(Null, z, "free", FALSE, FALSE)))

NextZones ==
    \/ PointerDown(1, XY(0, 0))
    \/ \E p \in ZonePointers : PointerMove(1, p)
    \/ PointerUp(1)
    \/ \E v \in DropZoneValues : DropZoneSetter(1, v)

SpecZones == InitZones /\ [][NextZones]_vars

-----------------------------------------------------------------------------
\* SpecScroll: one controller on t1 with scroll enabled, axis free and no
\* containment, in a document or a box the user has already scrolled by 0 or
\* by 5, given pointer events and scroll assignments.

ScrollPointers == {XY(0, 0), XY(30, 35), XY(35, 0), XY(35, 35)}
ScrolledBy == {0, 5}

InitScroll ==
    /\ sheet = [t \in Targets |-> "static"]
    /\ \E boxOverflow \in {"visible", "auto"}, o \in ScrolledBy :
          StartFrom(Construct([Pristine(boxOverflow) EXCEPT
                                  !.scrollPos = [k \in {"doc", "box"} |->
                                      IF (k = "box") = (boxOverflow = "auto")
                                      THEN XY(o, o) ELSE XY(0, 0)]],
                              1, "t1", Attrs(Null, Null, "free", TRUE, FALSE)))

NextScroll ==
    \/ PointerDown(1, XY(0, 0))
    \/ \E p \in ScrollPointers : PointerMove(1, p)
    \/ PointerUp(1)
    \/ \E v \in {Bool(TRUE), Bool(FALSE)} : ScrollSetter(1, v)

SpecScroll == InitScroll /\ [][NextScroll]_vars

-----------------------------------------------------------------------------
\* SpecRelease: one controller on t1 with the drop zone z1, given pointer
\* events and assignments to handle, dropZone, axis, scroll and containment in
\* any order.  The pointer that went down is released in the end: the browser
\* delivers the mouseup or touchend to the window listener.

InitRelease ==
    /\ sheet = [t \in Targets |-> "static"]
    /\ StartFrom(Construct(Pristine("visible"), 1, "t1",
                           Attrs(Null, Selector(<<"z1">>), "free", FALSE, FALSE)))

NextRelease ==
    \/ PointerDown(1, XY(0, 0))
    \/ PointerMove(1, XY(40, 40))
    \/ PointerUp(1)
    \/ \E v \in {Null, Selector(<<"h1">>)} : HandleSetter(1, v)
    \/ \E v \in {Null, Selector(<<"z1">>)} : DropZoneSetter(1, v)
    \/ AxisSetter(1, Str("vertical"))
    \/ ScrollSetter(1, Bool(TRUE))
    \/ ContainmentSetter(1, Bool(TRUE))

SpecRelease == InitRelease /\ [][NextRelease]_vars /\ WF_vars(PointerUp(1))

-----------------------------------------------------------------------------
\* SpecSharedHandle: controller 1 on t1 and controller 2 on t2, both
\* constructed with the handle h1; handle assignments, destroy, pointer-down
\* and pointer-up of each in any order.

SharedHandleValues == {Selector(<<"h1">>), Element("h2")}

InitSharedHandle ==
    /\ sheet = [t \in Targets |-> "static"]
    /\ StartFrom(Construct(Construct(Pristine("visible"), 1, "t1",
                                     Attrs(Selector(<<"h1">>), Null, "free", FALSE, FALSE)),
                           2, "t2", Attrs(Selector(<<"h1">>), Null, "free", FALSE, FALSE)))

NextSharedHandle ==
    \/ \E c \in {1, 2}, v \in SharedHandleValues : HandleSetter(c, v)
    \/ \E c \in {1, 2} : DestroyCall(c, FALSE)
    \/ \E c \in {1, 2} : PointerDown(c, XY(0, 0))
    \/ \E c \in {1, 2} : PointerUp(c)

SpecSharedHandle == InitSharedHandle /\ [][NextSharedHandle]_vars

-----------------------------------------------------------------------------
\* SpecAfterDestroy: controller 1 on t1, with the handle h1 or none, and later
\* controller 2 on the same element; destroy, pointer-down, move and
\* pointer-up of each, and a handle assignment to controller 1.

InitAfterDestroy ==
    /\ sheet = [t \in Targets |-> "static"]
    /\ \E h \in {Null, Selector(<<"h1">>)} :
          StartFrom(Construct(Pristine("visible"), 1, "t1", Attrs(h, Null, "free", FALSE, FALSE)))

NextAfterDestroy ==
    \/ \E h \in {Null, Selector(<<"h1">>)} : New(2, "t1", Attrs(h, Null, "free", FALSE, FALSE))
    \/ \E c \in {1, 2} : DestroyCall(c, FALSE)
    \/ \E c \in {1, 2} : PointerDown(c, XY(0, 0))
    \/ \E c \in {1, 2} : PointerMove(c, XY(40, 40))
    \/ \E c \in {1, 2} : PointerUp(c)
    \/ HandleSetter(1, Element("h2"))

SpecAfterDestroy == InitAfterDestroy /\ [][NextAfterDestroy]_vars

-----------------------------------------------------------------------------
\* SpecClasses: one controller on t1, with the handle h1 or none, given pointer
\* events, any handle value, and destroy.

InitClasses ==
    /\ sheet = [t \in Targets |-> "static"]
    /\ \E h \in {Null, Selector(<<"h1">>)} :
          StartFrom(Construct(Pristine("visible"), 1, "t1", Attrs(h, Null, "free", FALSE, FALSE)))

NextClasses ==
    \/ PointerDown(1, XY(0, 0))
    \/ PointerMove(1, XY(40, 40))
    \/ PointerUp(1)
    \/ \E v \in HandleValues : HandleSetter(1, v)
    \/ \E r \in BOOLEAN : DestroyCall(1, r)

SpecClasses == InitClasses /\ [][NextClasses]_vars

-----------------------------------------------------------------------------
\* Properties.

Last(s) == s[Len(s)]
Has(ns, t) == \E i \in 1 .. Len(ns) : ns[i].type = t

\* C1 (SpecSession): in every session that starts with the target outside the
\* single drop zone, the notifications are drag-start, then drag on each move,
\* drag-enter and drag-over on the first move that overlaps, drag-over on each
\* further overlapping move, and drop then drag-end at pointer-up.
C1_ScenarioSequence ==
    /\ (lastOp.op = "pointerdown" /\ phase = "out") => Types(emitted) = <<"dragstart">>
    /\ (lastOp.op = "move" /\ lastOp.from = "out" /\ phase = "out") => Types(emitted) = <<"drag">>
    /\ (lastOp.op = "move" /\ lastOp.from = "out" /\ phase = "in")
          => Types(emitted) = <<"drag", "dragenter", "dragover">>
    /\ (lastOp.op = "move" /\ lastOp.from = "in" /\ phase = "in")
          => Types(emitted) = <<"drag", "dragover">>
    /\ (lastOp.op = "pointerup" /\ lastOp.from = "in") => Types(emitted) = <<"drop", "dragend">>

\* C2 (SpecDrag): drag-enter and drag-leave alternate, starting with
\* drag-enter: never two drag-enter without a drag-leave between them.
C2_EnterLeaveAlternate ==
    /\ Len(elHist) >= 1 => elHist[1] = "dragenter" \/ Len(elHist) = 2
    /\ Len(elHist) = 2 => elHist[1] # elHist[2]

\* C3 (SpecSession): whenever the controller has no active session, the body
\* and the container have the overflow they had before the first pointer-down.
C3_OverflowRestored == ~Dragging(World, 1) => overflow = overflow0

\* C4 (SpecSession): between two drag-start notifications there is a drag-end.
C4_OneSessionAtATime == seHist # <<"dragstart", "dragstart">>

\* C5 (SpecSession): drag, drag-enter, drag-over and drag-leave are dispatched only
\* after a drag-start that no drag-end has followed; drop and drag-end come
\* from a pointer-up, after such a drag-start, drag-end last; and a pointer-up
\* that follows a drag-start with no drag-end since dispatches drag-end.
C5_State ==
    /\ \A i \in 1 .. Len(emitted) :
          emitted[i].type \in {"drag", "dragenter", "dragover", "dragleave"}
             => lastOp.op = "move" /\ seHist # <<>> /\ Last(seHist) = "dragstart"
    /\ (Has(emitted, "drop") \/ Has(emitted, "dragend"))
          => /\ lastOp.op = "pointerup"
             /\ seHist = <<"dragstart", "dragend">>
             /\ Last(emitted).type = "dragend"
    /\ Has(emitted, "dragstart") => lastOp.op = "pointerdown" /\ Len(emitted) = 1
C5_Step ==
    (lastOp'.op = "pointerup" /\ seHist # <<>> /\ Last(seHist) = "dragstart")
       => emitted' # <<>> /\ Last(emitted').type = "dragend"
C5_SessionOrder == [](C5_State) /\ [][C5_Step]_vars

\* A move after the drag-end of a session dispatched nothing.
C5_Witness ==
    /\ lastOp.op = "move"
    /\ seHist = <<"dragstart", "dragend">>
    /\ emitted = <<>>

\* C6 (SpecGeom): with axis horizontal no move changes the target's top, and
\* with axis vertical no move changes its left.
C6_Step ==
    /\ (lastOp'.op = "move" /\ da[1].axis = "horizontal") => style'["t1"].top = style["t1"].top
    /\ (lastOp'.op = "move" /\ da[1].axis = "vertical") => style'["t1"].left = style["t1"].left
C6_AxisFrame == [][C6_Step]_vars

\* A move of an active session with axis horizontal whose pointer left the
\* row of the pointer-down, and which moved the target horizontally.
C6_Witness ==
    /\ lastOp.op = "move" /\ lastOp.was
    /\ da[1].axis = "horizontal"
    /\ lastOp.page.y # DocPos(World, "t1").y + da[1].dragPosition.y
    /\ style["t1"].left.k = "px" /\ style["t1"].left.v # 0

\* C7 (SpecGeom): with containment, after every move of a session the target
\* lies within the container on both axes.
C7_Contained ==
    (lastOp.op = "move" /\ lastOp.was /\ da[1].containment)
       => LET pos == DocPos(World, "t1")
              cp == ContainerPos(da[1].container)
              cs == ContainerSize(da[1].container)
          IN /\ cp.x <= pos.x /\ pos.x + TargetSize.x <= cp.x + cs.x
             /\ cp.y <= pos.y /\ pos.y + TargetSize.y <= cp.y + cs.y


\* The listeners a controller registered that are still registered somewhere.
ListenersOf(c) ==
    {l \in Range(win) : l.by = c}
       \cup UNION {{l \in Range(hvent[h]) : l.by = c} : h \in HandleEls}
       \cup UNION {{l \in Range(da[b].own) : l.by = c} : b \in Ctl}

\* C8 (SpecLife): after destroy no listener the controller registered remains.
C8_NoListenerAfterDestroy == lastOp.op = "destroy" => ListenersOf(lastOp.c) = {}

\* A controller was constructed and destroyed at once.
RoundTrip == lastOp.op = "destroy" /\ lastOp.c = snap.c /\ snap.age = 1

\* C9 as stated (SpecLifeHandle): after construct-then-destroy no class was added, no
\* listener remains, the back-reference is cleared and, with restore, the
\* inline position, top and left are what they were before construction.
C9_InlineRoundTrip ==
    RoundTrip =>
       /\ \A e \in Elements : classes[e] \subseteq snap.classes[e]
       /\ ListenersOf(snap.c) = {}
       /\ backRef[da[snap.c].el] = 0
       /\ lastOp.restore => style[da[snap.c].el] = snap.style

\* C9 as amended (SpecLifeHandle): the same, with the computed position, top and
\* left in place of the inline ones.
C9_ComputedRoundTrip ==
    RoundTrip =>
       /\ \A e \in Elements : classes[e] \subseteq snap.classes[e]
       /\ ListenersOf(snap.c) = {}
       /\ backRef[da[snap.c].el] = 0
       /\ lastOp.restore =>
             /\ ComputedPosition(World, da[snap.c].el) = snap.computed.position
             /\ ComputedTop(World, da[snap.c].el) = snap.computed.top
             /\ ComputedLeft(World, da[snap.c].el) = snap.computed.left

\* A round trip with restore, of a controller with a handle, on a target
\* that had no inline position before.
C9_Witness ==
    /\ RoundTrip /\ lastOp.restore
    /\ da[snap.c].handles # <<>>
    /\ snap.style.position = ""

\* C10 (SpecLife): at most one controller has live listeners for the element,
\* and the element's back-reference designates it.
Live(c) == \E l \in ListenersOf(c) : l.fn \in {"_dragStart", "_drag", "_dragEnd"}
C10_SingleOwner ==
    /\ Cardinality({c \in Ctl : Live(c)}) <= 1
    /\ \A c \in Ctl : Live(c) => backRef[da[c].el] = c


\* C11 (SpecConfig): a move of an active session is processed with the axis,
\* scroll and containment the session began with, whatever was assigned since.
C11_Step ==
    (lastOp'.op = "move" /\ Dragging(World, lastOp'.c)) =>
        LET c == lastOp'.c
            began == [World EXCEPT !.da[c].axis = session[c].axis,
                                   !.da[c].scroll = session[c].scroll,
                                   !.da[c].containment = session[c].containment]
            r == Drag(began, c, lastOp'.page)
        IN style' = r.style /\ scrollPos' = r.scrollPos /\ emitted' = r.out
C11_SettingsFixedAtStart == [][C11_Step]_vars


\* C12 (SpecLife): a move or a pointer-up delivered to a controller with no
\* active session dispatches nothing and changes no inline style, class,
\* overflow, scroll offset or drop-zone state.
C12_Step ==
    (lastOp'.op \in {"move", "pointerup"} /\ ~session[lastOp'.c].active) =>
        /\ emitted' = <<>>
        /\ UNCHANGED <<style, classes, overflow, scrollPos>>
        /\ da'[lastOp'.c].dropZoneEntered = da[lastOp'.c].dropZoneEntered
        /\ da'[lastOp'.c].dropElement = da[lastOp'.c].dropElement
C13_Step ==
    (lastOp'.op = "pointerup" /\ session[lastOp'.c].active) =>
        LET zone == session[lastOp'.c].entered
        IN IF zone # "none"
           THEN Types(emitted') = <<"drop", "dragend">> /\ emitted'[1].dropElement = zone
           ELSE Types(emitted') = <<"dragend">>
C13_DropIffEntered == [][C13_Step]_vars


\* C14 (SpecConstruct): a construction whose argument stands for no element
\* raises an error, registers no listener, adds no class and sets no
\* back-reference.
C14_Step ==
    lastOp'.op = "newinvalid" =>
        /\ lastOp'.error # "none"
        /\ UNCHANGED <<win, hvent, classes, backRef, da>>
C14_FailedConstruction == [][C14_Step]_vars

\* A failed construction while another controller is live on its element.
C14_Witness ==
    /\ lastOp.op = "newinvalid"
    /\ lastOp.error = "Coral.DragAction: dragElement is null"
    /\ backRef["t1"] # 0


\* C15 (SpecConfig): whatever values were assigned, axis is free, horizontal
\* or vertical (free after an unrecognized value), scroll and containment are
\* booleans, and no assignment raised an error.
C15_SettingsValid ==
    /\ \A c \in Ctl : /\ da[c].axis \in {axis.FREE, axis.HORIZONTAL, axis.VERTICAL}
                      /\ da[c].scroll \in BOOLEAN
                      /\ da[c].containment \in BOOLEAN
    /\ lastOp.op \in {"axis", "scroll", "containment"} => lastOp.error = "none"

\* An unrecognized axis was assigned during a session and axis is free.
C15_Witness ==
    /\ lastOp.op = "axis" /\ lastOp.was
    /\ da[1].axis = axis.FREE /\ session[1].axis # axis.FREE


\* C16 (SpecLife): destroying a controller during its session puts the body's
\* and the container's overflow back to what they were before the session,
\* takes the dragging classes away and leaves no move or end listener of it.
C16_Step ==
    (lastOp'.op = "destroy" /\ session[lastOp'.c].active) =>
        LET c == lastOp'.c
        IN /\ overflow' = session[c].overflow
           /\ IS_DRAGGING_CLASS \notin classes'[da[c].el]
           /\ CLOSE_HAND_CLASS \notin classes'["body"]
           /\ \A i \in 1 .. Len(win') : win'[i].by = c => win'[i].fn \notin {"_drag", "_dragEnd"}
C16_DestroyMidSession == [][C16_Step]_vars

\* C17 (SpecShared): no pointer-up or destroy of one controller changes the
\* overflow while the other's session is active, and when neither has a
\* session the body and container overflow are what they were at first.
C17_Step ==
    (lastOp'.op \in {"pointerup", "destroy"}
        /\ \E b \in Ctl : b # lastOp'.c /\ session[b].active) => overflow' = overflow
C17_Idle == (\A c \in Ctl : ~session[c].active) => overflow = overflow0
C17_SharedOverflow == [](C17_Idle) /\ [][C17_Step]_vars


\* The elements on which controller c has a _dragStart listener.
StartListenerOn(c, e) ==
    IF e \in HandleEls THEN \E l \in Range(hvent[e]) : l.by = c /\ l.fn = "_dragStart"
    ELSE e = da[c].el /\ \E l \in Range(da[c].own) : l.by = c /\ l.fn = "_dragStart"

\* C18 (SpecHandle): with no active session, the start listeners and the
\* open-hand class are on exactly the current handles, or on the target alone
\* when there is none, and on no earlier handle.
C18_HandlesBound ==
    \A c \in Ctl : (da[c].made /\ ~session[c].active) =>
        LET on == IF da[c].handles = <<>> THEN {da[c].el} ELSE Range(da[c].handles)
        IN \A e \in HandleEls \cup {da[c].el} :
              /\ StartListenerOn(c, e) <=> e \in on
              /\ OPEN_HAND_CLASS \in classes[e] <=> e \in on

\* The handle was h1 and is now h2 alone, after a session.
C18_Witness ==
    /\ lastOp.op = "handle" /\ ~session[1].active
    /\ da[1].handles = <<"h2">>
    /\ seHist = <<"dragstart", "dragend">>


\* C19 (SpecSession): after the pointer-up that dispatched drag-end, the
\* controller's entered flag is false and it records no drop zone.
C19_StateCleared ==
    (lastOp.op = "pointerup" /\ Has(emitted, "dragend")) =>
        /\ ~da[lastOp.c].dropZoneEntered
        /\ da[lastOp.c].dropElement = "none"

\* C20 (SpecSession): when no session is active the window has no touchmove
\* listener that prevents the default action.
C20_NoBlockerOutsideSession ==
    (\A c \in Ctl : ~session[c].active) =>
        \A i \in 1 .. Len(win) : win[i].fn # "preventDefault"


\* C21 (SpecGeom): with containment disabled, after every move of a session
\* the target's corner in document coordinates is the pointer's position minus
\* the offset recorded at pointer-down, on each axis the setting permits.
C21_FollowsPointer ==
    (lastOp.op = "move" /\ lastOp.was /\ ~da[1].containment) =>
        LET pos == DocPos(World, "t1")
        IN /\ da[1].axis # axis.HORIZONTAL => pos.y = lastOp.page.y - da[1].dragPosition.y
           /\ da[1].axis # axis.VERTICAL => pos.x = lastOp.page.x - da[1].dragPosition.x

\* The same while the scroll setting is off.
C21_NoScroll == da[1].scroll \/ C21_FollowsPointer


\* Two boxes of the document overlap or touch.
Overlaps(aPos, aSize, bPos, bSize) ==
    /\ aPos.x <= bPos.x + bSize.x /\ bPos.x <= aPos.x + aSize.x
    /\ aPos.y <= bPos.y + bSize.y /\ bPos.y <= aPos.y + aSize.y

\* The first zone of the list zs that the target of controller c overlaps.
RECURSIVE FirstOverlapped(_, _)
FirstOverlapped(c, zs) ==
    IF zs = <<>> THEN "none"
    ELSE IF Overlaps(DocPos(World, da[c].el), TargetSize, ZonePos(World, Head(zs)), ZoneSize)
         THEN Head(zs)
         ELSE FirstOverlapped(c, Tail(zs))

\* C22 (SpecZones): every drag-enter, drag-over and drop names the first
\* configured drop zone, in configured order, that the target overlaps; each
\* move of a session that leaves the target on a zone dispatches drag-over;
\* and when the target overlaps no zone none of the three is dispatched.
C22_FirstZoneInOrder ==
    LET first == FirstOverlapped(1, da[1].dropZones)
    IN /\ \A i \in 1 .. Len(emitted) :
             emitted[i].type \in {"dragenter", "dragover", "drop"}
                => first # "none" /\ emitted[i].dropElement = first
       /\ (lastOp.op = "move" /\ lastOp.was /\ first # "none")
             => \E i \in 1 .. Len(emitted) :
                   emitted[i].type = "dragover" /\ emitted[i].dropElement = first

\* A move left the target on both zones, z2 configured before z1, and the
\* drag-over names z2.
C22_Witness ==
    /\ lastOp.op = "move" /\ lastOp.was
    /\ da[1].dropZones = <<"z2", "z1">>
    /\ Overlaps(DocPos(World, "t1"), TargetSize, ZonePos(World, "z1"), ZoneSize)
    /\ Overlaps(DocPos(World, "t1"), TargetSize, ZonePos(World, "z2"), ZoneSize)
    /\ \E i \in 1 .. Len(emitted) : emitted[i].type = "dragover" /\ emitted[i].dropElement = "z2"


\* The scroll offsets a move of controller c works on, and the target's
\* leading and trailing edges against the edges of what it scrolls.
Scrolled(c) == IF da[c].container = "body" THEN "doc" ELSE "box"
NearStart(c) ==
    LET pos == DocPos(World, da[c].el)
        k == Scrolled(c)
        edge == IF k = "doc" THEN scrollPos["doc"] ELSE ContainerPos("box")
    IN [x |-> pos.x - edge.x < DEFAULT_SCROLL_OFFSET, y |-> pos.y - edge.y < DEFAULT_SCROLL_OFFSET]
NearEnd(c) ==
    LET pos == DocPos(World, da[c].el)
        k == Scrolled(c)
        edge == IF k = "doc" THEN scrollPos["doc"] ELSE ContainerPos("box")
    IN [x |-> pos.x + TargetSize.x - edge.x > ClientSize(k).x - DEFAULT_SCROLL_OFFSET,
        y |-> pos.y + TargetSize.y - edge.y > ClientSize(k).y - DEFAULT_SCROLL_OFFSET]

Least(a, b) == IF a < b THEN a ELSE b
Greatest(a, b) == IF a > b THEN a ELSE b

\* A move of an active session of controller 1 with scroll enabled.
ScrollingMove == lastOp'.op = "move" /\ Dragging(World, 1) /\ da[1].scroll

\* C23 as stated (SpecScroll): such a move changes the offset on each axis by 0
\* or by exactly 10, toward the edge the target is within 20 of, and the
\* offset stays between 0 and the maximum scroll extent.
C23_ExactAxis(old, new, max, start, end) ==
    /\ new - old \in {0, DEFAULT_SCROLL_BY, 0 - DEFAULT_SCROLL_BY}
    /\ new < old => start
    /\ new > old => end
    /\ 0 <= new /\ new <= max
C23_ExactStepMove ==
    ScrollingMove =>
        LET k == Scrolled(1)
        IN /\ C23_ExactAxis(scrollPos[k].x, scrollPos'[k].x, ScrollMax(k).x,
                            NearStart(1).x, NearEnd(1).x)
           /\ C23_ExactAxis(scrollPos[k].y, scrollPos'[k].y, ScrollMax(k).y,
                            NearStart(1).y, NearEnd(1).y)
           /\ \A j \in {"doc", "box"} : j # k => scrollPos'[j] = scrollPos[j]
C23_ExactStep == [][C23_ExactStepMove]_vars

\* C23 as amended (SpecScroll): the offset on each axis stays, or goes one step
\* of 10 toward the edge the target is within 20 of, the step cut short at 0
\* and at the maximum scroll extent; each axis by its own edges.
C23_ClampedAxis(old, new, max, start, end) ==
    /\ \/ new = old
       \/ start /\ new = Greatest(old - DEFAULT_SCROLL_BY, 0)
       \/ end /\ new = Least(old + DEFAULT_SCROLL_BY, max)
    /\ 0 <= new /\ new <= max
C23_ClampedStepMove ==
    ScrollingMove =>
        LET k == Scrolled(1)
        IN /\ C23_ClampedAxis(scrollPos[k].x, scrollPos'[k].x, ScrollMax(k).x,
                              NearStart(1).x, NearEnd(1).x)
           /\ C23_ClampedAxis(scrollPos[k].y, scrollPos'[k].y, ScrollMax(k).y,
                              NearStart(1).y, NearEnd(1).y)
           /\ \A j \in {"doc", "box"} : j # k => scrollPos'[j] = scrollPos[j]
C23_ClampedStep == [][C23_ClampedStepMove]_vars

\* A move of a session with scroll enabled has left the box where the user
\* had scrolled it (5) on one axis and at its maximum on the other: the step
\* from 5 was cut short.
C23_Witness ==
    /\ lastOp.op = "move" /\ lastOp.was /\ da[1].scroll /\ da[1].container = "box"
    /\ scrollPos["box"].x = 5
    /\ scrollPos["box"].y = ScrollMax("box").y


\* The zone named by the latest drag-enter before the i-th notification of ns,
\* zone being the one entered, and not left, before ns.
EnteredBefore(ns, i, zone) ==
    IF \E j \in 1 .. i - 1 : ns[j].type = "dragenter"
    THEN ns[CHOOSE j \in 1 .. i - 1 : ns[j].type = "dragenter"].dropElement
    ELSE zone

\* C24 (SpecZones): every drag-over, drag-leave and drop of a session names the
\* drop zone of the session's latest drag-enter, and none of them is
\* dispatched in a session that has dispatched no drag-enter before it.
C24_Step ==
    (lastOp'.op \in {"move", "pointerup"} /\ session[lastOp'.c].active) =>
        \A i \in 1 .. Len(emitted') :
            emitted'[i].type \in {"dragover", "dragleave", "drop"} =>
                LET zone == EnteredBefore(emitted', i, session[lastOp'.c].entered)
                IN zone # "none" /\ emitted'[i].dropElement = zone
C24_ZoneOfLastEnter == [][C24_Step]_vars

\* The same in the first session of a controller, while at most one drop zone
\* is configured.
C24_OneZoneStep == (Len(da[1].dropZones) <= 1 /\ Starts <= 1) => C24_Step
C24_OneZoneFirstSession == [][C24_OneZoneStep]_vars


\* C25 (SpecRelease): whatever is assigned to handle, dropZone, axis, scroll
\* and containment in between, every drag-start is followed by a drag-end once
\* the pointer is released, and the pointer-up of a session that one
\* pointer-down began puts the body's overflow back to what it was before.
C25_Ends == Has(emitted, "dragstart") ~> Has(emitted, "dragend")
C25_ReleaseStep ==
    (lastOp'.op = "pointerup" /\ session[1].active
        /\ seHist \in {<<"dragstart">>, <<"dragend", "dragstart">>})
       => /\ Has(emitted', "dragend")
          /\ overflow'["body"] = session[1].overflow["body"]
C25_SessionEnds == C25_Ends /\ [][C25_ReleaseStep]_vars

\* During a session only a handle assignment or a pointer-up takes the dragging
\* class off the target, and while the class is on it the pointer-up does both.
C25_HandleKeptStep ==
    /\ (session[1].active /\ IS_DRAGGING_CLASS \in classes["t1"]
           /\ lastOp'.op \notin {"handle", "pointerup"})
          => IS_DRAGGING_CLASS \in classes'["t1"]
    /\ IS_DRAGGING_CLASS \in classes["t1"] => C25_ReleaseStep
C25_HandleKept == [][C25_HandleKeptStep]_vars


\* C26 (SpecSharedHandle): a handle assignment or a destroy of one controller
\* leaves every start listener another controller has on a handle element the
\* two share: a pointer-down there still starts a session of the other.
C26_Step ==
    lastOp'.op \in {"handle", "destroy"} =>
        \A b \in Ctl, h \in HandleEls :
            (b # lastOp'.c /\ h \in Range(da[b].handles) /\ h \in Range(da[lastOp'.c].handles)
                /\ HasListener(hvent[h], "mousedown", "_dragStart", b))
               => HasListener(hvent'[h], "mousedown", "_dragStart", b)
C26_SharedHandleKept == [][C26_Step]_vars


\* C27 (SpecAfterDestroy): from its destroy until something is assigned to it, a
\* controller has no start, move or end listener on its former handles, its
\* target or the window, and no pointer-down, move or pointer-up makes it
\* dispatch a notification or change a style or a class.
C27_Unreachable == \A c \in Ctl : session[c].gone => ~Live(c)
C27_Step ==
    (lastOp'.op \in {"pointerdown", "move", "pointerup"} /\ session[lastOp'.c].gone)
       => emitted' = <<>> /\ style' = style /\ classes' = classes
C27_SilentAfterDestroy == [](C27_Unreachable) /\ [][C27_Step]_vars

\* Controller 1, with the handle h1, was destroyed; a move of a session of
\* controller 2, on the same target with the same handle, has just been handled.
C27_Witness ==
    /\ session[1].gone /\ da[1].handles = <<"h1">>
    /\ lastOp.op = "move" /\ lastOp.c = 2 /\ lastOp.was
    /\ da[2].el = da[1].el /\ da[2].handles = <<"h1">>


\* C28 (SpecClasses): the target has the dragging class and the body the
\* closed-hand class exactly while a session of the controller is active, and
\* each current handle (the target when there is none) has the open-hand
\* class exactly while no session is active and the controller is not
\* destroyed.
C28_ClassesConsistent ==
    LET el == da[1].el
        on == IF da[1].handles = <<>> THEN {el} ELSE Range(da[1].handles)
    IN /\ IS_DRAGGING_CLASS \in classes[el] <=> session[1].active
       /\ CLOSE_HAND_CLASS \in classes["body"] <=> session[1].active
       /\ \A e \in on :
             OPEN_HAND_CLASS \in classes[e] <=> (~session[1].active /\ ~session[1].gone)

====
